---------------------------- MODULE Spec2Model ----------------------------
(***************************************************************************)
(* NeuraPic: the view-model of src/App.tsx as a state machine.             *)
(*                                                                         *)
(* The state is the five useState cells of App that the handlers write,    *)
(* the promises that are still unsettled (file-decode batches, calls to    *)
(* generateImage), and a record of what the last handler did to the        *)
(* outside world (alert, saved file, request sent).                        *)
(*                                                                         *)
(* Strings that the code only stores and compares (image data, result      *)
(* urls, error messages) are TLA+ strings.  Strings that the code takes    *)
(* apart (the user prompt and the instruction template) are sequences of   *)
(* one-character strings, so that trim() and replace() are computed.       *)
(***************************************************************************)
EXTENDS Integers, Sequences, FiniteSets, TLC

----------------------------------------------------------------------------
(* Bounds of the model *)

\* longest SourceImage sequence, counting the files still being decoded
MaxImages == 2
\* most files chosen in one file-picker selection
MaxBatch == 2
\* most generateImage calls issued in one run
MaxCalls == 2
\* longest user prompt typed in the application model
MaxPromptLen == 1
\* longest user prompt fed to the prompt composer on its own
MaxComposeLen == 3

\* the files the user can choose
Files == {"f1", "f2"}
\* the characters the user can type
PromptChars == {" ", "a"}
\* the characters fed to the prompt composer on its own
ComposeChars == {" ", "\n", "a", "b"}
\* what generateImage can resolve with
ResultUrls == {"", "data:image/png;base64,OUT"}
\* what generateImage can reject with: an Error with a message, or any other value
Thrown == {[isError |-> TRUE, message |-> "quota exceeded"], [isError |-> FALSE, message |-> "oops"]}

\* all sequences over S of length at most n
RECURSIVE SeqUpTo(_, _)
SeqUpTo(S, n) ==
   IF n = 0 THEN {<< >>}
   ELSE LET shorter == SeqUpTo(S, n - 1)
        IN  shorter \cup {Append(s, x) : s \in {t \in shorter : Len(t) = n - 1}, x \in S}

----------------------------------------------------------------------------
(* The prompt composer: createFinalPrompt, App.tsx:167-183 *)

\* App.tsx:168  the template literal baseInstruction, one character per element
baseInstruction ==
   <<
      "*", "*", "P", "r", "i", "m", "a", "r", "y", " ", "O", "b", "j", "e", "c", "t",
      "i", "v", "e", ":", "*", "*", " ", "R", "e", "c", "r", "e", "a", "t", "e", " ",
      "t", "h", "e", " ", "e", "x", "a", "c", "t", " ", "p", "e", "r", "s", "o", "n",
      "/", "p", "e", "o", "p", "l", "e", " ", "f", "r", "o", "m", " ", "t", "h", "e",
      " ", "u", "p", "l", "o", "a", "d", "e", "d", " ", "p", "h", "o", "t", "o", "s",
      " ", "i", "n", " ", "a", " ", "n", "e", "w", ",", " ", "p", "h", "o", "t", "o",
      "r", "e", "a", "l", "i", "s", "t", "i", "c", " ", "i", "m", "a", "g", "e", "."
   >>

\* App.tsx:171  the text before ${userPrompt.trim()}
sceneHead ==
   <<
      "*", "*", "S", "c", "e", "n", "e", " ", "D", "e", "s", "c", "r", "i", "p", "t",
      "i", "o", "n", ":", "*", "*", " "
   >>

\* App.tsx:171  the text after ${userPrompt.trim()}
sceneTail ==
   <<
      "."
   >>

\* App.tsx:172  the scene clause used when the trimmed prompt is empty
fallbackScene ==
   <<
      "*", "*", "S", "c", "e", "n", "e", " ", "D", "e", "s", "c", "r", "i", "p", "t",
      "i", "o", "n", ":", "*", "*", " ", "C", "r", "e", "a", "t", "e", " ", "a", "n",
      " ", "i", "n", "t", "e", "r", "e", "s", "t", "i", "n", "g", " ", "a", "n", "d",
      " ", "c", "r", "e", "a", "t", "i", "v", "e", " ", "p", "h", "o", "t", "o", "r",
      "e", "a", "l", "i", "s", "t", "i", "c", " ", "s", "c", "e", "n", "e", " ", "f",
      "o", "r", " ", "t", "h", "e", " ", "p", "e", "r", "s", "o", "n", "/", "p", "e",
      "o", "p", "l", "e", " ", "i", "n", " ", "t", "h", "e", " ", "p", "h", "o", "t",
      "o", "."
   >>

\* App.tsx:174-180  the template literal rules, with its line breaks and indentation
rules ==
   <<
      "\n", " ", " ", " ", " ", " ", " ", " ", " ", " ", " ", " ", " ", "*", "*", "C",
      "r", "i", "t", "i", "c", "a", "l", " ", "R", "u", "l", "e", "s", " ", "(", "N",
      "o", "n", "-", "n", "e", "g", "o", "t", "i", "a", "b", "l", "e", ")", ":", "*",
      "*", "\n", " ", " ", " ", " ", " ", " ", " ", " ", " ", " ", " ", " ", "1", ".",
      " ", " ", "*", "*", "P", "r", "e", "s", "e", "r", "v", "e", " ", "I", "d", "e",
      "n", "t", "i", "t", "y", ":", "*", "*", " ", "Y", "o", "u", " ", "M", "U", "S",
      "T", " ", "k", "e", "e", "p", " ", "t", "h", "e", " ", "f", "a", "c", "e", "s",
      " ", "o", "f", " ", "t", "h", "e", " ", "p", "e", "o", "p", "l", "e", " ", "i",
      "d", "e", "n", "t", "i", "c", "a", "l", " ", "t", "o", " ", "t", "h", "e", " ",
      "s", "o", "u", "r", "c", "e", " ", "p", "h", "o", "t", "o", "s", ".", " ", "D",
      "o", " ", "n", "o", "t", " ", "a", "l", "t", "e", "r", " ", "t", "h", "e", "i",
      "r", " ", "f", "a", "c", "i", "a", "l", " ", "s", "t", "r", "u", "c", "t", "u",
      "r", "e", ",", " ", "f", "e", "a", "t", "u", "r", "e", "s", ",", " ", "o", "r",
      " ", "u", "n", "i", "q", "u", "e", " ", "l", "i", "k", "e", "n", "e", "s", "s",
      ".", " ", "T", "h", "e", " ", "f", "i", "n", "a", "l", " ", "i", "m", "a", "g",
      "e", " ", "m", "u", "s", "t", " ", "b", "e", " ", "o", "f", " ", "t", "h", "e",
      " ", "*", "s", "a", "m", "e", " ", "p", "e", "o", "p", "l", "e", "*", ".", "\n",
      " ", " ", " ", " ", " ", " ", " ", " ", " ", " ", " ", " ", "2", ".", " ", " ",
      "*", "*", "P", "h", "o", "t", "o", "r", "e", "a", "l", "i", "s", "t", "i", "c",
      " ", "O", "u", "t", "p", "u", "t", ":", "*", "*", " ", "T", "h", "e", " ", "f",
      "i", "n", "a", "l", " ", "i", "m", "a", "g", "e", " ", "m", "u", "s", "t", " ",
      "l", "o", "o", "k", " ", "l", "i", "k", "e", " ", "a", " ", "r", "e", "a", "l",
      " ", "p", "h", "o", "t", "o", "g", "r", "a", "p", "h", ",", " ", "n", "o", "t",
      " ", "a", " ", "d", "r", "a", "w", "i", "n", "g", " ", "o", "r", " ", "d", "i",
      "g", "i", "t", "a", "l", " ", "c", "r", "e", "a", "t", "i", "o", "n", ".", "\n",
      " ", " ", " ", " ", " ", " ", " ", " ", " ", " ", " ", " ", "3", ".", " ", " ",
      "*", "*", "S", "e", "a", "m", "l", "e", "s", "s", " ", "I", "n", "t", "e", "g",
      "r", "a", "t", "i", "o", "n", ":", "*", "*", " ", "T", "h", "e", " ", "p", "e",
      "o", "p", "l", "e", " ", "f", "r", "o", "m", " ", "t", "h", "e", " ", "p", "h",
      "o", "t", "o", "s", " ", "m", "u", "s", "t", " ", "b", "e", " ", "s", "e", "a",
      "m", "l", "e", "s", "s", "l", "y", " ", "i", "n", "t", "e", "g", "r", "a", "t",
      "e", "d", " ", "i", "n", "t", "o", " ", "t", "h", "e", " ", "d", "e", "s", "c",
      "r", "i", "b", "e", "d", " ", "s", "c", "e", "n", "e", " ", "w", "i", "t", "h",
      " ", "a", "u", "t", "h", "e", "n", "t", "i", "c", " ", "l", "i", "g", "h", "t",
      "i", "n", "g", " ", "a", "n", "d", " ", "s", "h", "a", "d", "o", "w", "s", ".",
      "\n", " ", " ", " ", " ", " ", " ", " ", " ", " ", " ", " ", " ", "4", ".", " ",
      " ", "*", "*", "S", "i", "n", "g", "l", "e", " ", "I", "m", "a", "g", "e", ":",
      "*", "*", " ", "P", "r", "o", "d", "u", "c", "e", " ", "a", " ", "s", "i", "n",
      "g", "l", "e", ",", " ", "c", "o", "h", "e", "s", "i", "v", "e", " ", "f", "i",
      "n", "a", "l", " ", "i", "m", "a", "g", "e", ".", "\n", " ", " ", " ", " ", " ",
      " ", " ", " "
   >>

\* ECMAScript WhiteSpace and LineTerminator characters that can be written here
IsWhiteSpace(c) == c \in {" ", "\t", "\n", "\r", "\f"}

\* String.prototype.trim: strip white space from both ends
RECURSIVE trimStart(_)
trimStart(s) ==
   IF s # << >> /\ IsWhiteSpace(Head(s)) THEN trimStart(Tail(s)) ELSE s

RECURSIVE trimEnd(_)
trimEnd(s) ==
   IF s # << >> /\ IsWhiteSpace(s[Len(s)]) THEN trimEnd(SubSeq(s, 1, Len(s) - 1)) ELSE s

trim(s) == trimEnd(trimStart(s))

\* s.replace(/\s\s+/g, ' '): every maximal run of two or more white-space
\* characters becomes one space, a single one is kept as it is
collapseWhiteSpace(s) ==
   LET ws(i) == i >= 1 /\ i <= Len(s) /\ IsWhiteSpace(s[i])
       inRun(i) == ws(i) /\ (ws(i - 1) \/ ws(i + 1))
       out(i) == IF ~inRun(i) THEN s[i]
                 ELSE IF ~ws(i - 1) THEN " "
                 ELSE ""
   IN  SelectSeq([i \in 1..Len(s) |-> out(i)], LAMBDA c : c # "")

\* rules.replace(/\s\s+/g, ' '), the same for every call
normalizedRules == collapseWhiteSpace(rules)

\* as userScene, with ${userPrompt} in the clause: tested trimmed, sent as typed
userSceneAsTyped(prompt) ==
   IF trim(prompt) # << >>
   THEN sceneHead \o prompt \o sceneTail
   ELSE fallbackScene

\* the scene clause: the trimmed prompt between the head and the full stop
\* when the trimmed prompt is not empty (a non-empty string is truthy)
userScene(prompt) ==
   IF trim(prompt) # << >>
   THEN sceneHead \o trim(prompt) \o sceneTail
   ELSE fallbackScene

createFinalPrompt(prompt) ==
   trim(baseInstruction \o <<" ">> \o userScene(prompt) \o <<" ">> \o normalizedRules)

\* sub occurs in s as a contiguous substring
Contains(s, sub) ==
   \E i \in 1..(Len(s) - Len(sub) + 1) :
      \A j \in 1..Len(sub) : s[i + j - 1] = sub[j]

----------------------------------------------------------------------------
(* The state of App, App.tsx:121-125, and the promises not yet settled *)

VARIABLES
   uploadedImages,   \* useState<string[]>: SourceImage, in order
   userPrompt,       \* useState<string>: Prompt
   generatedImage,   \* useState<GeneratedImage | null>: GenerationResult
   isLoading,        \* useState<boolean>
   appState,         \* useState: UIState
   reading,          \* the file batches whose Promise.all has not settled, in selection order
   inflight,         \* the generateImage calls that have not settled, in issue order
   issued,           \* how many generateImage calls were made so far
   event,            \* the handler or continuation that ran last
   effect            \* what that handler did outside the state: alert, save, request

vars == <<uploadedImages, userPrompt, generatedImage, isLoading, appState,
          reading, inflight, issued, event, effect>>

\* the useState cells the handlers write
view == <<uploadedImages, userPrompt, generatedImage, isLoading, appState>>

\* generatedImage === null
NULL == [status |-> "null"]

NoEffect == [kind |-> "none"]

\* FileReader.readAsDataURL: the file's content as a data URL
readAsDataURL(file) == "data:image/jpeg;base64," \o file

\* the files chosen so far and not yet decoded
RECURSIVE TotalLen(_)
TotalLen(batches) ==
   IF batches = << >> THEN 0 ELSE Len(Head(batches)) + TotalLen(Tail(batches))

\* s without its i-th element
RemoveAt(s, i) == SubSeq(s, 1, i - 1) \o SubSeq(s, i + 1, Len(s))

Init ==
   /\ uploadedImages = << >>
   /\ userPrompt = << >>
   /\ generatedImage = NULL
   /\ isLoading = FALSE
   /\ appState = "idle"
   /\ reading = << >>
   /\ inflight = << >>
   /\ issued = 0
   /\ event = "init"
   /\ effect = NoEffect

----------------------------------------------------------------------------
(* The handlers of App *)

\* handleImageUpload, the synchronous part: start one FileReader per file
\* and wait for all of them; nothing happens for an empty selection
handleImageUpload(files) ==
   /\ TotalLen(reading) + Len(uploadedImages) + Len(files) <= MaxImages
   /\ reading' = IF Len(files) > 0 THEN Append(reading, files) ELSE reading
   /\ event' = "handleImageUpload"
   /\ effect' = NoEffect
   /\ UNCHANGED <<view, inflight, issued>>

\* Promise.all(imagePromises).then: every file of batch i was read; the
\* results come in the order of the files, whatever order they finished in
decodedImages(files) == [j \in 1..Len(files) |-> readAsDataURL(files[j])]

\* as UploadResolved, without setGeneratedImage(null)
UploadResolvedKeepingResult(i) ==
   /\ i \in 1..Len(reading)
   /\ uploadedImages' = uploadedImages \o decodedImages(reading[i])
   /\ appState' = "photos-selected"
   /\ reading' = RemoveAt(reading, i)
   /\ event' = "uploadResolved"
   /\ effect' = [kind |-> "decoded", files |-> reading[i]]
   /\ UNCHANGED <<userPrompt, generatedImage, isLoading, inflight, issued>>

\* as UploadResolved, with setUploadedImages(base64Images): the new batch
\* replaces the images instead of following them
UploadResolvedReplacing(i) ==
   /\ i \in 1..Len(reading)
   /\ uploadedImages' = decodedImages(reading[i])
   /\ appState' = "photos-selected"
   /\ generatedImage' = NULL
   /\ reading' = RemoveAt(reading, i)
   /\ event' = "uploadResolved"
   /\ effect' = [kind |-> "decoded", files |-> reading[i]]
   /\ UNCHANGED <<userPrompt, isLoading, inflight, issued>>

UploadResolved(i) ==
   /\ i \in 1..Len(reading)
   /\ uploadedImages' = uploadedImages \o decodedImages(reading[i])
   /\ appState' = "photos-selected"
   /\ generatedImage' = NULL
   /\ reading' = RemoveAt(reading, i)
   /\ event' = "uploadResolved"
   /\ effect' = [kind |-> "decoded", files |-> reading[i]]
   /\ UNCHANGED <<userPrompt, isLoading, inflight, issued>>

\* Promise.all(imagePromises).catch: ok[j] tells whether file j could be
\* read; one failure rejects the whole batch
\* as UploadRejected, with Promise.allSettled: the files that were read are
\* kept
UploadRejectedKeepingRead(i, ok) ==
   /\ i \in 1..Len(reading)
   /\ ok \in [1..Len(reading[i]) -> BOOLEAN]
   /\ \E j \in 1..Len(reading[i]) : ~ok[j]
   /\ uploadedImages' = uploadedImages \o
         SelectSeq(decodedImages(reading[i]),
                   LAMBDA img : \E j \in 1..Len(reading[i]) :
                                   ok[j] /\ img = readAsDataURL(reading[i][j]))
   /\ reading' = RemoveAt(reading, i)
   /\ event' = "uploadRejected"
   /\ effect' = [kind |-> "alert", files |-> reading[i], ok |-> ok]
   /\ UNCHANGED <<userPrompt, generatedImage, isLoading, appState, inflight, issued>>

UploadRejected(i, ok) ==
   /\ i \in 1..Len(reading)
   /\ ok \in [1..Len(reading[i]) -> BOOLEAN]
   /\ \E j \in 1..Len(reading[i]) : ~ok[j]
   /\ reading' = RemoveAt(reading, i)
   /\ event' = "uploadRejected"
   /\ effect' = [kind |-> "alert", files |-> reading[i], ok |-> ok]
   /\ UNCHANGED <<view, inflight, issued>>

\* handleRemoveImage: filter out the index; an index outside the array
\* removes nothing
\* as removeIndex, with the index taken as the position counted from one
removeIndexFromOne(prev, indexToRemove) ==
   LET keep == {k \in 1..Len(prev) : k # indexToRemove}
       nth(n) == CHOOSE k \in keep : Cardinality({m \in keep : m < k}) = n - 1
   IN  [n \in 1..Cardinality(keep) |-> prev[nth(n)]]

removeIndex(prev, indexToRemove) ==
   LET keep == {k \in 1..Len(prev) : k - 1 # indexToRemove}
       nth(n) == CHOOSE k \in keep : Cardinality({m \in keep : m < k}) = n - 1
   IN  [n \in 1..Cardinality(keep) |-> prev[nth(n)]]

handleRemoveImage(indexToRemove) ==
   /\ uploadedImages' = removeIndex(uploadedImages, indexToRemove)
   /\ appState' = IF Len(uploadedImages') = 0 THEN "idle" ELSE appState
   /\ event' = "handleRemoveImage"
   /\ effect' = [kind |-> "removed", index |-> indexToRemove]
   /\ UNCHANGED <<userPrompt, generatedImage, isLoading, reading, inflight, issued>>

\* the textarea's onChange: setUserPrompt(e.target.value)
setUserPrompt(value) ==
   /\ userPrompt' = value
   /\ event' = "setUserPrompt"
   /\ effect' = NoEffect
   /\ UNCHANGED <<uploadedImages, generatedImage, isLoading, appState, reading, inflight, issued>>

\* as handleGenerateClick, returning also while isLoading is set
handleGenerateClickOneAtATime ==
   /\ event' = "handleGenerateClick"
   /\ IF Len(uploadedImages) = 0 \/ isLoading
      THEN /\ effect' = NoEffect
           /\ UNCHANGED <<view, reading, inflight, issued>>
      ELSE /\ issued < MaxCalls
           /\ isLoading' = TRUE
           /\ appState' = "generating"
           /\ generatedImage' = [status |-> "pending"]
           /\ issued' = issued + 1
           /\ inflight' = Append(inflight, issued + 1)
           /\ effect' = [kind |-> "request", call |-> issued + 1,
                         images |-> uploadedImages,
                         prompt |-> createFinalPrompt(userPrompt)]
           /\ UNCHANGED <<uploadedImages, userPrompt, reading>>

\* as handleGenerateClick, without the early return
handleGenerateClickUnguarded ==
   /\ event' = "handleGenerateClick"
   /\ issued < MaxCalls
   /\ isLoading' = TRUE
   /\ appState' = "generating"
   /\ generatedImage' = [status |-> "pending"]
   /\ issued' = issued + 1
   /\ inflight' = Append(inflight, issued + 1)
   /\ effect' = [kind |-> "request", call |-> issued + 1,
                 images |-> uploadedImages,
                 prompt |-> createFinalPrompt(userPrompt)]
   /\ UNCHANGED <<uploadedImages, userPrompt, reading>>

\* handleGenerateClick up to the await: return at once without images,
\* otherwise mark the generation as pending and send the request
handleGenerateClick ==
   /\ event' = "handleGenerateClick"
   /\ IF Len(uploadedImages) = 0
      THEN /\ effect' = NoEffect
           /\ UNCHANGED <<view, reading, inflight, issued>>
      ELSE /\ issued < MaxCalls
           /\ isLoading' = TRUE
           /\ appState' = "generating"
           /\ generatedImage' = [status |-> "pending"]
           /\ issued' = issued + 1
           /\ inflight' = Append(inflight, issued + 1)
           /\ effect' = [kind |-> "request", call |-> issued + 1,
                         images |-> uploadedImages,
                         prompt |-> createFinalPrompt(userPrompt)]
           /\ UNCHANGED <<uploadedImages, userPrompt, reading>>

\* handleGenerateClick after the await, the call resolved with resultUrl
GenerateResolved(i, resultUrl) ==
   /\ i \in 1..Len(inflight)
   /\ generatedImage' = [status |-> "done", url |-> resultUrl]
   /\ isLoading' = FALSE
   /\ appState' = "results-shown"
   /\ inflight' = RemoveAt(inflight, i)
   /\ event' = "generateResolved"
   /\ effect' = [kind |-> "settled", call |-> inflight[i]]
   /\ UNCHANGED <<uploadedImages, userPrompt, reading, issued>>

\* err instanceof Error ? err.message : "An unknown error occurred."
errorMessage(err) == IF err.isError THEN err.message ELSE "An unknown error occurred."

\* as GenerateRejected, with setIsLoading(false) and
\* setAppState('results-shown') inside the try block: a rejection skips them
GenerateRejectedStuck(i, err) ==
   /\ i \in 1..Len(inflight)
   /\ generatedImage' = [status |-> "error", error |-> errorMessage(err)]
   /\ inflight' = RemoveAt(inflight, i)
   /\ event' = "generateRejected"
   /\ effect' = [kind |-> "settled", call |-> inflight[i]]
   /\ UNCHANGED <<uploadedImages, userPrompt, isLoading, appState, reading, issued>>

\* handleGenerateClick after the await, the call rejected with err
GenerateRejected(i, err) ==
   /\ i \in 1..Len(inflight)
   /\ generatedImage' = [status |-> "error", error |-> errorMessage(err)]
   /\ isLoading' = FALSE
   /\ appState' = "results-shown"
   /\ inflight' = RemoveAt(inflight, i)
   /\ event' = "generateRejected"
   /\ effect' = [kind |-> "settled", call |-> inflight[i]]
   /\ UNCHANGED <<uploadedImages, userPrompt, reading, issued>>

\* as handleReset, aborting the calls that are out
handleResetCancelling ==
   /\ uploadedImages' = << >>
   /\ generatedImage' = NULL
   /\ appState' = "idle"
   /\ userPrompt' = << >>
   /\ inflight' = << >>
   /\ isLoading' = FALSE
   /\ event' = "handleReset"
   /\ effect' = NoEffect
   /\ UNCHANGED <<reading, issued>>

\* as handleReset, without setUserPrompt('')
handleResetKeepingPrompt ==
   /\ uploadedImages' = << >>
   /\ generatedImage' = NULL
   /\ appState' = "idle"
   /\ event' = "handleReset"
   /\ effect' = NoEffect
   /\ UNCHANGED <<userPrompt, isLoading, reading, inflight, issued>>

handleReset ==
   /\ uploadedImages' = << >>
   /\ generatedImage' = NULL
   /\ appState' = "idle"
   /\ userPrompt' = << >>
   /\ event' = "handleReset"
   /\ effect' = NoEffect
   /\ UNCHANGED <<isLoading, reading, inflight, issued>>

\* as canDownload, without the test of the url
canDownloadAnyUrl(image) == image.status = "done"

\* handleDownloadIndividualImage: click a link to the url, when there is one
canDownload(image) == image.status = "done" /\ image.url # ""

handleDownloadIndividualImage ==
   /\ event' = "handleDownloadIndividualImage"
   /\ effect' = IF canDownload(generatedImage)
                THEN [kind |-> "save", href |-> generatedImage.url,
                      download |-> "neurapic-creation.jpg"]
                ELSE NoEffect
   /\ UNCHANGED <<view, reading, inflight, issued>>

----------------------------------------------------------------------------
(* What App renders, App.tsx:248-357: which handler the user can reach *)

\* the upload view with its file input
IdleView == appState = "idle"

\* the gallery with remove buttons, the second file input, the prompt
\* field, Start Over and Generate
SelectedView == appState = "photos-selected" /\ Len(uploadedImages) > 0

\* the read-only gallery and the result area
ResultView == appState \in {"generating", "results-shown"} /\ Len(uploadedImages) > 0

\* the Generate Again and Start Over buttons under the result
ResultButtons == ResultView /\ appState = "results-shown"

\* the PolaroidCard is mounted
CardMounted == ResultView /\ generatedImage # NULL

\* PolaroidCard calls onShake to generate again once a result is shown
CardOffersShake == CardMounted /\ generatedImage.status \in {"done", "error"}

\* PolaroidCard calls onDownload for a result that succeeded
CardOffersDownload == CardMounted /\ generatedImage.status = "done"

Inputs == SeqUpTo(Files, MaxBatch)
Prompts == SeqUpTo(PromptChars, MaxPromptLen)

\* the settling of promises, which no view holds back
Settle ==
   \/ \E i \in 1..Len(reading) : UploadResolved(i)
   \/ \E i \in 1..Len(reading) : \E ok \in [1..Len(reading[i]) -> BOOLEAN] : UploadRejected(i, ok)
   \/ \E i \in 1..Len(inflight) : \E u \in ResultUrls : GenerateResolved(i, u)
   \/ \E i \in 1..Len(inflight) : \E e \in Thrown : GenerateRejected(i, e)

\* the user acting on what is rendered
PickFiles == (IdleView \/ SelectedView) /\ \E files \in Inputs : handleImageUpload(files)
ClickRemove == SelectedView /\ \E k \in 0..(Len(uploadedImages) - 1) : handleRemoveImage(k)
TypePrompt == SelectedView /\ \E value \in Prompts : setUserPrompt(value)
ClickGenerate == (SelectedView \/ (ResultButtons /\ ~isLoading) \/ CardOffersShake) /\ handleGenerateClick
ClickReset == (SelectedView \/ ResultButtons) /\ handleReset
ClickDownload == CardOffersDownload /\ handleDownloadIndividualImage

Next ==
   \/ PickFiles
   \/ ClickRemove
   \/ TypePrompt
   \/ ClickGenerate
   \/ ClickReset
   \/ ClickDownload
   \/ Settle

Spec == Init /\ [][Next]_vars

----------------------------------------------------------------------------
(* The handlers called in any state, whatever is rendered *)

CallUpload == \E files \in Inputs : handleImageUpload(files)
CallRemove == \E k \in 0..MaxImages : handleRemoveImage(k)
CallSetPrompt == \E value \in Prompts : setUserPrompt(value)

NextHandlers ==
   \/ CallUpload
   \/ CallRemove
   \/ CallSetPrompt
   \/ handleGenerateClick
   \/ handleReset
   \/ handleDownloadIndividualImage
   \/ Settle

SpecHandlers == Init /\ [][NextHandlers]_vars

----------------------------------------------------------------------------
(* The collaborator settles every call it was sent *)

SettleCall(c) ==
   \E i \in 1..Len(inflight) :
      /\ inflight[i] = c
      /\ \/ \E u \in ResultUrls : GenerateResolved(i, u)
         \/ \E e \in Thrown : GenerateRejected(i, e)

LiveSpec == Spec /\ \A c \in 1..MaxCalls : WF_vars(SettleCall(c))

----------------------------------------------------------------------------
(* The prompt composer on its own: any prompt, composed once *)

ComposeInputs == SeqUpTo(ComposeChars, MaxComposeLen)

InitPrompt ==
   /\ uploadedImages = << >>
   /\ userPrompt \in ComposeInputs
   /\ generatedImage = NULL
   /\ isLoading = FALSE
   /\ appState = "idle"
   /\ reading = << >>
   /\ inflight = << >>
   /\ issued = 0
   /\ event = "init"
   /\ effect = NoEffect

Compose ==
   /\ event = "init"
   /\ event' = "createFinalPrompt"
   /\ effect' = [kind |-> "composed", prompt |-> createFinalPrompt(userPrompt)]
   /\ UNCHANGED <<view, reading, inflight, issued>>

NextPrompt == Compose

SpecPrompt == InitPrompt /\ [][NextPrompt]_vars

----------------------------------------------------------------------------
(* Properties *)

ResultStates == {"generating", "results-shown"}

\* C1: in every reachable state, UIState is not "generating" or
\* "results-shown" while the SourceImage sequence is empty.
C1_ResultNeedsImages ==
   appState \in ResultStates => uploadedImages # << >>

\* the outcome the last settled call left behind
SettledAsResolved ==
   /\ event = "generateResolved"
   /\ appState = "results-shown"
   /\ generatedImage.status = "done"
   /\ generatedImage.url \in ResultUrls

SettledAsRejected ==
   /\ event = "generateRejected"
   /\ appState = "results-shown"
   /\ generatedImage.status = "error"
   /\ generatedImage.error \in {e.message : e \in Thrown} \cup {"An unknown error occurred."}

\* C2: once a generate action has made UIState "generating" and the result
\* pending, and the collaborator settles its calls, a state follows in which
\* UIState is "results-shown" and the result is done(url) after a resolution
\* or error(message) after a rejection; "generating" does not last forever.
C2_GeneratingLeadsToResult ==
   (appState = "generating" /\ generatedImage.status = "pending")
      ~> (SettledAsResolved \/ SettledAsRejected)

\* a call was rejected with something that is not an Error, and the result
\* shows the generic message
C2_Witness ==
   /\ SettledAsRejected
   /\ generatedImage.error = "An unknown error occurred."
   /\ ~isLoading

\* C3: when a batch of N >= 1 files has all been decoded while SourceImage
\* holds M entries, SourceImage becomes the M old entries followed by the N
\* new ones in selection order, UIState becomes "photos-selected" and the
\* GenerationResult is discarded.
C3_BatchAppended ==
   [][event' = "uploadResolved" =>
         LET M == Len(uploadedImages)
             N == Len(effect'.files)
         IN  /\ N >= 1
             /\ Len(uploadedImages') = M + N
             /\ \A k \in 1..M : uploadedImages'[k] = uploadedImages[k]
             /\ \A j \in 1..N : uploadedImages'[M + j] = readAsDataURL(effect'.files[j])
             /\ appState' = "photos-selected"
             /\ generatedImage' = NULL]_vars

\* a batch was appended behind images that were already there
C3_Witness ==
   /\ event = "uploadResolved"
   /\ Len(effect.files) >= 1
   /\ Len(uploadedImages) > Len(effect.files)
   /\ uploadedImages[1] # uploadedImages[Len(uploadedImages)]
   /\ appState = "photos-selected"

C5_FailedBatchDropped ==
   [][event' = "uploadRejected" =>
         /\ uploadedImages' = uploadedImages
         /\ appState' = appState
         /\ generatedImage' = generatedImage
         /\ userPrompt' = userPrompt
         /\ effect'.kind = "alert"]_vars

\* a batch was dropped although one of its files had been decoded, and
\* the prompt typed before is still there
C5_Witness ==
   /\ event = "uploadRejected"
   /\ \E j \in 1..Len(effect.files) : effect.ok[j]
   /\ \E j \in 1..Len(effect.files) : ~effect.ok[j]
   /\ userPrompt # << >>

\* C6: right after a reset taken in a state that is not idle, SourceImage
\* is empty, GenerationResult is absent, Prompt is the empty string and
\* UIState is "idle".
C6_ResetClearsAll ==
   [][(appState # "idle" /\ event' = "handleReset") =>
         /\ uploadedImages' = << >>
         /\ generatedImage' = NULL
         /\ userPrompt' = << >>
         /\ appState' = "idle"]_vars

\* a reset has just cleared everything while a generation call is still out
C6_Witness ==
   /\ event = "handleReset"
   /\ inflight # << >>
   /\ isLoading
   /\ appState = "idle"
   /\ userPrompt = << >>

\* C7: generate with an empty SourceImage does nothing: UIState,
\* GenerationResult, the loading flag, SourceImage and Prompt stay as they
\* are and no call goes to the generation collaborator.
C7_GenerateWithoutImages ==
   [][(event' = "handleGenerateClick" /\ uploadedImages = << >>) =>
         /\ appState' = appState
         /\ generatedImage' = generatedImage
         /\ isLoading' = isLoading
         /\ uploadedImages' = uploadedImages
         /\ userPrompt' = userPrompt
         /\ inflight' = inflight
         /\ issued' = issued
         /\ effect'.kind # "request"]_vars

\* generate was called without images and nothing was sent
C7_Witness ==
   /\ event = "handleGenerateClick"
   /\ uploadedImages = << >>
   /\ effect = NoEffect
   /\ inflight = << >>
   /\ ~isLoading

\* C8: download saves a file exactly when GenerationResult is done with a
\* url; with the result absent, pending or error it does nothing; it never
\* changes SourceImage, Prompt, GenerationResult or UIState.
C8_DownloadOnlyWhenDone ==
   [][event' = "handleDownloadIndividualImage" =>
         /\ uploadedImages' = uploadedImages
         /\ userPrompt' = userPrompt
         /\ generatedImage' = generatedImage
         /\ appState' = appState
         /\ IF generatedImage.status = "done" /\ generatedImage.url # ""
            THEN effect' = [kind |-> "save", href |-> generatedImage.url,
                            download |-> "neurapic-creation.jpg"]
            ELSE effect' = NoEffect]_vars

\* download was called on a result without a url and saved nothing
C8_Witness ==
   /\ event = "handleDownloadIndividualImage"
   /\ generatedImage.status = "done"
   /\ generatedImage.url = ""
   /\ effect = NoEffect

\* C9: while UIState is "idle" the only step that changes it is a batch of
\* files decoded successfully, which makes it "photos-selected"; the
\* settling of an earlier generation call does not lead out of "idle".
C9_OnlyUploadLeavesIdle ==
   [][(appState = "idle" /\ appState' # "idle") =>
         (event' = "uploadResolved" /\ appState' = "photos-selected")]_vars

\* the prompt without the white space at its two ends
Stripped(s) ==
   LET solid == {i \in 1..Len(s) : ~IsWhiteSpace(s[i])}
   IN  IF solid = {} THEN << >>
       ELSE SubSeq(s, CHOOSE i \in solid : \A k \in solid : i <= k,
                      CHOOSE i \in solid : \A k \in solid : i >= k)

\* the headings of the four rules as they are sent
RuleHeads ==
   << <<"1", ".", " ", "*", "*", "P", "r", "e", "s", "e", "r", "v", "e", " ",
        "I", "d", "e", "n", "t", "i", "t", "y", ":", "*", "*", " ", "Y", "o", "u">>,
      <<".", " ", "2", ".", " ", "*", "*", "P", "h", "o", "t", "o", "r", "e", "a", "l",
        "i", "s", "t", "i", "c", " ", "O", "u", "t", "p", "u", "t", ":", "*", "*", " ", "T">>,
      <<".", " ", "3", ".", " ", "*", "*", "S", "e", "a", "m", "l", "e", "s", "s", " ",
        "I", "n", "t", "e", "g", "r", "a", "t", "i", "o", "n", ":", "*", "*", " ", "T">>,
      <<".", " ", "4", ".", " ", "*", "*", "S", "i", "n", "g", "l", "e", " ",
        "I", "m", "a", "g", "e", ":", "*", "*", " ", "P", "r", "o", "d", "u", "c", "e">> >>

\* the objective comes first and the four rules are all there
HasObjectiveAndRules(p) ==
   /\ SubSeq(p, 1, Len(baseInstruction)) = baseInstruction
   /\ \A r \in 1..4 : Contains(p, RuleHeads[r])

\* the sentence of the fallback clause, without its heading and full stop
fallbackSentence == SubSeq(fallbackScene, Len(sceneHead) + 1, Len(fallbackScene) - 1)

\* C10 as stated: the composed string contains the fallback clause when the
\* Prompt is empty; when the Prompt is not empty it contains the user's text
\* exactly as typed and not the fallback clause; the objective and the
\* four rules are there in both cases.
C10_AsTyped ==
   effect.kind = "composed" =>
      /\ userPrompt = << >> => Contains(effect.prompt, fallbackScene)
      /\ userPrompt # << >> =>
            /\ Contains(effect.prompt, userPrompt)
            /\ ~Contains(effect.prompt, fallbackScene)
      /\ HasObjectiveAndRules(effect.prompt)

\* C10, amended: the composed string contains the fallback clause when the
\* Prompt is empty or white space only; otherwise it contains the scene
\* heading, the Prompt without the white space at its ends and a full stop,
\* and not the fallback clause unless the user typed its sentence; the
\* objective and the four rules are there in both cases.
C10_Trimmed ==
   effect.kind = "composed" =>
      LET typed == Stripped(userPrompt)
      IN  /\ typed = << >> => Contains(effect.prompt, fallbackScene)
          /\ typed # << >> =>
                /\ Contains(effect.prompt, sceneHead \o typed \o <<".">>)
                /\ ~Contains(typed, fallbackSentence) => ~Contains(effect.prompt, fallbackScene)
          /\ HasObjectiveAndRules(effect.prompt)

\* a prompt with white space around and inside the text was composed
C10_Witness ==
   /\ effect.kind = "composed"
   /\ Stripped(userPrompt) # << >>
   /\ Stripped(userPrompt) # userPrompt
   /\ Contains(effect.prompt, Stripped(userPrompt))
   /\ ~Contains(effect.prompt, userPrompt)

\* a continuation of handleGenerateClick has just run
JustSettled == event \in {"generateResolved", "generateRejected"}

\* what a settled call can leave in GenerationResult
Outcomes ==
   {[status |-> "done", url |-> u] : u \in ResultUrls}
      \cup {[status |-> "error", error |-> m] :
               m \in {e.message : e \in {t \in Thrown : t.isError}} \cup {"An unknown error occurred."}}

\* C11: a reset does not cancel a generation call that is still out; when
\* the call settles later it writes done or error into GenerationResult and
\* sets UIState to "results-shown", over the idle, cleared state the reset
\* left and over anything built after it.
C11_ResetDoesNotCancel ==
   [][/\ event' = "handleReset" => inflight' = inflight
      /\ (JustSettled' /\ inflight' # inflight) =>
            /\ generatedImage' \in Outcomes
            /\ appState' = "results-shown"
            /\ uploadedImages' = uploadedImages
            /\ userPrompt' = userPrompt]_vars

\* a call settled after a reset: a result is shown and there is no image
C11_Witness ==
   /\ JustSettled
   /\ appState = "results-shown"
   /\ generatedImage \in Outcomes
   /\ uploadedImages = << >>
   /\ userPrompt = << >>
   /\ reading = << >>

\* C12: generate is not held back by a call that is still out: with images
\* it always sends one more call, so two calls can be out at once; every
\* settlement overwrites GenerationResult, so what remains is the outcome
\* of the call that settled last, which can be the one issued first.
C12_CallsOverlap ==
   [][/\ (event' = "handleGenerateClick" /\ uploadedImages # << >>) =>
            /\ inflight' = Append(inflight, issued + 1)
            /\ effect'.kind = "request"
            /\ generatedImage' = [status |-> "pending"]
      /\ (JustSettled' /\ inflight' # inflight) =>
            /\ effect'.call \in {inflight[i] : i \in 1..Len(inflight)}
            /\ generatedImage' \in Outcomes
            /\ appState' = "results-shown"]_vars

\* two calls were out together, the second settled first, and the result
\* that is left came with the first
C12_Witness ==
   /\ JustSettled
   /\ effect.call = 1
   /\ issued >= 2
   /\ inflight = << >>
   /\ generatedImage \in Outcomes
   /\ appState = "results-shown"

\* C13: UIState and GenerationResult agree in every reachable state: the
\* result is absent exactly in "idle" and "photos-selected", pending
\* exactly in "generating", done or error exactly in "results-shown"; there
\* is one GenerationResult at most.
C13_StateMatchesResult ==
   /\ generatedImage \in {NULL, [status |-> "pending"]} \cup Outcomes
   /\ generatedImage = NULL <=> appState \in {"idle", "photos-selected"}
   /\ generatedImage = [status |-> "pending"] <=> appState = "generating"
   /\ generatedImage \in Outcomes <=> appState = "results-shown"

\* an upload that finished during a generation cleared the pending result
\* and took the view back to the photos
C13_Witness ==
   /\ event = "uploadResolved"
   /\ inflight # << >>
   /\ isLoading
   /\ appState = "photos-selected"
   /\ generatedImage = NULL

=============================================================================
